---- MODULE Spec2Model ----
(***************************************************************************)
(* checkfs: File and Directory attribute checks with an optional create /  *)
(* replace action, over a small POSIX filesystem.                          *)
(*                                                                         *)
(* Strings are sequences of one-character strings ("a.t" is                *)
(* <<"a", ".", "t">>, the empty string is <<>>), so that prefix, extension *)
(* and length are computed as the code computes them.  A path is the       *)
(* sequence of its elements, an absolute path starting with the element    *)
(* "/" ("/d/a.t" is << "/", "d", "a.t" >>); the empty path "" is <<>>.     *)
(* A byte count is [tb, b], standing for tb * 2^40 + b, so that the one    *)
(* terabyte limit of Create.file is exact within TLC's integers.           *)
(*                                                                         *)
(* The build modelled is the POSIX one (darwin/linux); the caller is the   *)
(* unprivileged owner of every entry, so the owner permission bits decide  *)
(* access.                                                                 *)
(***************************************************************************)
EXTENDS Integers, Sequences, FiniteSets, TLC

VARIABLES fs, last, calls

vars == <<fs, last, calls>>

\* ------------------------------------------------------------------ bounds

\* file sizes and size thresholds range over 0..MaxBytes bytes
MaxBytes == 2
\* timestamps of the initial entries and time thresholds range over 1..MaxTime
MaxTime == 2
\* number of calls in one run of the program
MaxCalls == 2

\* ------------------------------------------------------- integers and bits

RECURSIVE BitAnd(_, _)
BitAnd(a, b) ==
  IF a = 0 \/ b = 0 THEN 0
  ELSE (a % 2) * (b % 2) + 2 * BitAnd(a \div 2, b \div 2)

\* Go's a &^ b
AndNot(a, b) == a - BitAnd(a, b)

\* the permission bits written 0ugo in the source
Oct(u, g, o) == 64 * u + 8 * g + o

Bytes(n) == [tb |-> 0, b |-> n]
\* SizeLess with the comparison made non-strict
SizeLessOrEqual(x, y) == x.tb < y.tb \/ (x.tb = y.tb /\ x.b <= y.b)

SizeLess(x, y) == x.tb < y.tb \/ (x.tb = y.tb /\ x.b < y.b)
SizeAdd(x, y) == [tb |-> x.tb + y.tb, b |-> x.b + y.b]
SizeMax(x, y) == IF SizeLess(x, y) THEN y ELSE x

\* ---------------------------------------------------------------- strings

HasPrefix(s, prefix) ==
  Len(prefix) <= Len(s) /\ SubSeq(s, 1, Len(prefix)) = prefix

Digit == <<"0", "1", "2", "3", "4", "5", "6", "7", "8", "9">>

\* fmt.Sprint of an unsigned number
RECURSIVE Sprint(_)
Sprint(n) ==
  IF n < 10 THEN <<Digit[n + 1]>>
  ELSE Sprint(n \div 10) \o <<Digit[(n % 10) + 1]>>

\* ------------------------------------------------------------------ paths

Sep == <<"/">>
Dot == <<".">>
DotDot == <<".", ".">>
Root == <<Sep>>
EmptyPath == <<>>

\* filepath.Dir of a clean absolute path
Dir(p) == IF Len(p) <= 2 THEN Root ELSE SubSeq(p, 1, Len(p) - 1)

\* filepath.Base of a clean path ("." for the empty path, "/" for the root)
Base(p) == IF p = EmptyPath THEN Dot ELSE p[Len(p)]

\* filepath.Ext: the suffix of the last element from its last dot on
RECURSIVE ExtFrom(_, _)
ExtFrom(name, i) ==
  IF i < 1 THEN <<>>
  ELSE IF name[i] = "." THEN SubSeq(name, i, Len(name))
  ELSE ExtFrom(name, i - 1)

Ext(p) ==
  IF p = EmptyPath \/ p = Root THEN <<>> ELSE ExtFrom(p[Len(p)], Len(p[Len(p)]))

\* filepath.Clean of an absolute path: "." elements dropped, ".." elements resolved
RECURSIVE CleanFrom(_, _, _)
CleanFrom(p, i, acc) ==
  IF i > Len(p) THEN acc
  ELSE IF p[i] = Dot THEN CleanFrom(p, i + 1, acc)
  ELSE IF p[i] = DotDot
    THEN CleanFrom(p, i + 1, IF Len(acc) > 1 THEN SubSeq(acc, 1, Len(acc) - 1) ELSE acc)
  ELSE CleanFrom(p, i + 1, Append(acc, p[i]))

Clean(p) == CleanFrom(p, 2, Root)

\* the working directory of the process
Cwd == <<Sep, <<"d">>>>

\* filepath.Abs: an absolute path is cleaned, any other is joined to the working
\* directory first
Abs(p) == IF p # EmptyPath /\ p[1] = Sep THEN Clean(p) ELSE Clean(Cwd \o p)

\* number of leading elements two paths share
RECURSIVE Common(_, _, _)
Common(b, t, k) ==
  IF k < Len(b) /\ k < Len(t) /\ b[k + 1] = t[k + 1] THEN Common(b, t, k + 1) ELSE k

\* filepath.Rel of two clean absolute paths, as the sequence of its elements
Rel(base, targ) ==
  LET k == Common(base, targ, 0)
      ups == [i \in 1..(Len(base) - k) |-> DotDot]
      rest == SubSeq(targ, k + 1, Len(targ))
  IN IF ups \o rest = <<>> THEN <<Dot>> ELSE ups \o rest

\* the string of a relative path: its elements joined by the separator
RECURSIVE Join(_)
Join(els) ==
  IF els = <<>> THEN <<>>
  ELSE IF Len(els) = 1 THEN els[1]
  ELSE els[1] \o Sep \o Join(Tail(els))

\* RelStartsWithParent without the test of what follows the two dots
RelStartsWithTwoDots(rel) == HasPrefix(Join(rel), DotDot)

\* common.RelStartsWithParent; rel comes from Rel, so its Clean changes nothing
RelStartsWithParent(rel) ==
  LET s == Join(rel) IN
  /\ HasPrefix(s, DotDot)
  /\ (Len(s) = 2 \/ HasPrefix(SubSeq(s, 3, Len(s)), Sep))

IsPathInBase(path, baseDir) ==
  IF path = EmptyPath THEN [ok |-> FALSE, err |-> "path cannot be empty"]
  ELSE IF baseDir = EmptyPath THEN [ok |-> FALSE, err |-> "base directory cannot be empty"]
  ELSE [ok |-> ~RelStartsWithParent(Rel(Abs(baseDir), Abs(path))), err |-> "nil"]

\* -------------------------------------------------------------- filesystem

nD == <<"d">>
nR == <<"r">>
nM == <<"m">>
nA == <<"a", ".", "t">>
nS == <<"s">>
nW == <<"w">>
nV == <<"v">>
nN == <<"n">>
nK == <<"k">>
nX == <<"x">>
nZ == <<"z">>

pD == <<Sep, nD>>
pA == <<Sep, nD, nA>>
pS == <<Sep, nD, nS>>
pW == <<Sep, nD, nW>>
pV == <<Sep, nD, nV>>
pN == <<Sep, nD, nN>>
pR == <<Sep, nR>>
pK == <<Sep, nR, nK>>
pRN == <<Sep, nR, nN>>
pM == <<Sep, nM>>
pMX == <<Sep, nM, nX>>
pAZ == <<Sep, nD, nA, nZ>>

\* every path the filesystem is asked about
Universe == {Root, pD, pA, pS, pW, pV, pN, pR, pK, pRN, pM, pMX, pAZ}

\* the time at which the calls run: after every initial timestamp
Now == MaxTime + 1

\* the process umask, 022
Umask == Oct(0, 2, 2)

Owner == [uid |-> 5, gid |-> 10]

Entry(kind, perm, size, content, mtime, ctime, target) ==
  [kind |-> kind, perm |-> perm, size |-> size, content |-> content,
   mtime |-> mtime, ctime |-> ctime, uid |-> Owner.uid, gid |-> Owner.gid,
   target |-> target]

NoEntry == Entry("absent", 0, Bytes(0), "none", 0, 0, EmptyPath)
NewDir(perm) == Entry("dir", perm, Bytes(0), "none", Now, Now, EmptyPath)
NewFile(perm) == Entry("file", perm, Bytes(0), "empty", Now, Now, EmptyPath)

\* the directories above the last element of p, walked from the root:
\* "ok", or the errno of the first one that stops the walk
RECURSIVE Walk(_, _, _)
Walk(f, p, i) ==
  IF p = EmptyPath THEN "ENOENT"
  ELSE IF i >= Len(p) THEN "ok"
  ELSE LET e == f[SubSeq(p, 1, i)] IN
       IF e.kind = "absent" THEN "ENOENT"
       ELSE IF e.kind # "dir" THEN "ENOTDIR"
       ELSE IF BitAnd(e.perm, Oct(1, 0, 0)) = 0 THEN "EACCES"
       ELSE Walk(f, p, i + 1)

\* os.Lstat: the entry at p itself
Lstat(f, p) ==
  LET w == Walk(f, p, 1) IN
  IF w # "ok" THEN [errno |-> w, info |-> NoEntry]
  ELSE IF f[p].kind = "absent" THEN [errno |-> "ENOENT", info |-> NoEntry]
  ELSE [errno |-> "ok", info |-> f[p]]

\* os.Stat: as Lstat, following a symbolic link at p
Stat(f, p) ==
  LET l == Lstat(f, p) IN
  IF l.errno = "ok" /\ l.info.kind = "symlink" THEN Lstat(f, l.info.target) ELSE l

\* IsNotExist taking every failed lookup for a missing path
IsNotExistAny(errno) == errno # "ok"

\* os.IsNotExist
IsNotExist(errno) == errno = "ENOENT"

\* the entries below p
Children(f, p) ==
  {q \in DOMAIN f : Len(q) > Len(p) /\ SubSeq(q, 1, Len(p)) = p /\ f[q].kind # "absent"}

Touch(f, p) == [f EXCEPT ![p].mtime = Now]

\* open flags: the access mode and the O_CREATE, O_TRUNC, O_EXCL, O_APPEND bits
Flag(acc, create, trunc, excl, append) ==
  [acc |-> acc, create |-> create, trunc |-> trunc, excl |-> excl, append |-> append]

NoFd == [path |-> EmptyPath, acc |-> "r", append |-> FALSE]

\* os.OpenFile(p, flag, perm): the filesystem after it, its errno and the descriptor
OpenFile(f, p, flag, perm) ==
  LET w == Walk(f, p, 1)
      link == w = "ok" /\ f[p].kind = "symlink"
      real == IF link THEN f[p].target ELSE p
      wr == IF link THEN Walk(f, real, 1) ELSE w
      failed(errno) == [fs |-> f, errno |-> errno, fd |-> NoFd]
      opened(g) == [fs |-> g, errno |-> "ok",
                    fd |-> [path |-> real, acc |-> flag.acc, append |-> flag.append]]
      needs == IF flag.acc = "r" THEN Oct(4, 0, 0)
               ELSE IF flag.acc = "w" THEN Oct(2, 0, 0) ELSE Oct(6, 0, 0)
  IN
  IF wr # "ok" THEN failed(wr)
  ELSE IF link /\ flag.create /\ flag.excl THEN failed("EEXIST")
  ELSE IF f[real].kind = "absent" THEN
    IF ~flag.create THEN failed("ENOENT")
    ELSE IF BitAnd(f[Dir(real)].perm, Oct(2, 0, 0)) = 0 THEN failed("EACCES")
    ELSE opened(Touch([f EXCEPT ![real] = NewFile(AndNot(perm, Umask))], Dir(real)))
  ELSE IF flag.create /\ flag.excl THEN failed("EEXIST")
  ELSE IF f[real].kind = "dir" /\ (flag.acc # "r" \/ flag.create) THEN failed("EISDIR")
  ELSE IF BitAnd(f[real].perm, needs) # needs THEN failed("EACCES")
  ELSE IF f[real].kind = "file" /\ flag.trunc /\ flag.acc # "r" THEN
    opened([f EXCEPT ![real].size = Bytes(0), ![real].content = "empty",
                     ![real].mtime = Now])
  ELSE opened(f)

\* File.Seek(0, 0) then File.Write of n filler bytes on an open descriptor
Write(f, fd, n) ==
  IF fd.acc = "r" THEN [fs |-> f, errno |-> "EBADF"]
  ELSE IF f[fd.path].kind # "file" THEN [fs |-> f, errno |-> "ok"]
  ELSE LET old == f[fd.path].size
           new == IF fd.append THEN SizeAdd(old, n) ELSE SizeMax(old, n)
           what == IF fd.append /\ old # Bytes(0) THEN "mixed"
                   ELSE IF SizeLess(n, old) THEN "mixed" ELSE "filler"
       IN [fs |-> [f EXCEPT ![fd.path].size = new, ![fd.path].content = what,
                            ![fd.path].mtime = Now],
           errno |-> "ok"]

\* os.Mkdir
Mkdir(f, p, perm) ==
  LET w == Walk(f, p, 1) IN
  IF w # "ok" THEN [fs |-> f, errno |-> w]
  ELSE IF f[p].kind # "absent" THEN [fs |-> f, errno |-> "EEXIST"]
  ELSE IF BitAnd(f[Dir(p)].perm, Oct(2, 0, 0)) = 0 THEN [fs |-> f, errno |-> "EACCES"]
  ELSE [fs |-> Touch([f EXCEPT ![p] = NewDir(AndNot(perm, Umask))], Dir(p)),
        errno |-> "ok"]

\* os.MkdirAll: p and its missing ancestors; ancestors made stay when a later one fails
RECURSIVE MkdirAll(_, _, _)
MkdirAll(f, p, perm) ==
  LET s == Stat(f, p) IN
  IF s.errno = "ok"
  THEN [fs |-> f, errno |-> IF s.info.kind = "dir" THEN "ok" ELSE "ENOTDIR"]
  ELSE LET up == IF Len(p) > 2 THEN MkdirAll(f, Dir(p), perm)
                 ELSE [fs |-> f, errno |-> "ok"]
       IN IF up.errno # "ok" THEN up
          ELSE LET m == Mkdir(up.fs, p, perm)
                   l == Lstat(m.fs, p)
               IN IF m.errno # "ok" /\ l.errno = "ok" /\ l.info.kind = "dir"
                  THEN [fs |-> m.fs, errno |-> "ok"]
                  ELSE m

\* os.Remove: one file, link or empty directory
Remove(f, p) ==
  LET w == Walk(f, p, 1) IN
  IF w # "ok" THEN [fs |-> f, errno |-> w]
  ELSE IF f[p].kind = "absent" THEN [fs |-> f, errno |-> "ENOENT"]
  ELSE IF BitAnd(f[Dir(p)].perm, Oct(2, 0, 0)) = 0 THEN [fs |-> f, errno |-> "EACCES"]
  ELSE IF Children(f, p) # {} THEN [fs |-> f, errno |-> "ENOTEMPTY"]
  ELSE [fs |-> Touch([f EXCEPT ![p] = NoEntry], Dir(p)), errno |-> "ok"]

\* os.RemoveAll: p and everything below it; a missing p is no error
RemoveAll(f, p) ==
  LET w == Walk(f, p, 1)
      below == Children(f, p)
      locked == {q \in below \cup {p} :
                   Children(f, q) # {} /\ BitAnd(f[q].perm, Oct(7, 0, 0)) # Oct(7, 0, 0)}
  IN
  IF w = "ENOENT" THEN [fs |-> f, errno |-> "ok"]
  ELSE IF w # "ok" THEN [fs |-> f, errno |-> w]
  ELSE IF f[p].kind = "absent" THEN [fs |-> f, errno |-> "ok"]
  ELSE IF BitAnd(f[Dir(p)].perm, Oct(2, 0, 0)) = 0 THEN [fs |-> f, errno |-> "EACCES"]
  ELSE IF locked # {} THEN [fs |-> f, errno |-> "EACCES"]
  ELSE [fs |-> Touch([q \in DOMAIN f |-> IF q \in below \cup {p} THEN NoEntry ELSE f[q]],
                     Dir(p)),
        errno |-> "ok"]

\* FileMode.IsRegular of a snapshot
IsRegular(info) == info.kind = "file"

\* FileInfo.IsDir of a snapshot
IsDir(info) == info.kind = "dir"

\* ------------------------------------------------- package common (POSIX)

\* IsMorePermissiveThan comparing the modes as numbers
IsMorePermissiveThanNumeric(f, path, minPerms) ==
  LET s == Stat(f, path) IN
  IF s.errno # "ok" THEN [ok |-> FALSE, err |-> "failed to stat"]
  ELSE [ok |-> s.info.perm >= minPerms, err |-> "nil"]

\* common.IsMorePermissiveThan: looks the path up again
IsMorePermissiveThan(f, path, minPerms) ==
  LET s == Stat(f, path) IN
  IF s.errno # "ok" THEN [ok |-> FALSE, err |-> "failed to stat"]
  ELSE [ok |-> BitAnd(s.info.perm, minPerms) = minPerms, err |-> "nil"]

\* IsLessPermissiveThan with the comparison of IsMorePermissiveThan copied into it
IsLessPermissiveThanCopied(f, path, maxPerms) ==
  LET s == Stat(f, path) IN
  IF s.errno # "ok" THEN [ok |-> FALSE, err |-> "failed to stat"]
  ELSE [ok |-> BitAnd(s.info.perm, maxPerms) = maxPerms, err |-> "nil"]

\* common.IsLessPermissiveThan: looks the path up again
IsLessPermissiveThan(f, path, maxPerms) ==
  LET s == Stat(f, path) IN
  IF s.errno # "ok" THEN [ok |-> FALSE, err |-> "failed to stat"]
  ELSE [ok |-> AndNot(s.info.perm, maxPerms) = 0, err |-> "nil"]

\* common.GetOwnerAndGroup: looks the path up again
GetOwnerAndGroup(f, path) ==
  LET s == Stat(f, path) IN
  IF s.errno # "ok" THEN [uid |-> <<>>, gid |-> <<>>, err |-> "failed to stat"]
  ELSE [uid |-> Sprint(s.info.uid), gid |-> Sprint(s.info.gid), err |-> "nil"]

\* common.GetCreationTime: looks the path up again
GetCreationTime(f, path) ==
  LET s == Stat(f, path) IN
  IF s.errno # "ok" THEN [time |-> 0, err |-> "failed to stat"]
  ELSE [time |-> s.info.ctime, err |-> "nil"]

\* ----------------------------------------------- package common (Windows)

\* common.IsMorePermissiveThan of the Windows build
IsMorePermissiveThanWindows(f, path, minPerms) ==
  LET s == Stat(f, path) IN
  IF s.errno # "ok" THEN [ok |-> FALSE, err |-> "failed to stat"]
  ELSE [ok |-> BitAnd(s.info.perm, Oct(4, 4, 4)) >= BitAnd(minPerms, Oct(4, 4, 4)),
        err |-> "nil"]

\* common.IsLessPermissiveThan of the Windows build
IsLessPermissiveThanWindows(f, path, maxPerms) ==
  LET s == Stat(f, path) IN
  IF s.errno # "ok" THEN [ok |-> FALSE, err |-> "failed to stat"]
  ELSE [ok |-> BitAnd(s.info.perm, Oct(6, 6, 6)) <= BitAnd(maxPerms, Oct(6, 6, 6)),
        err |-> "nil"]

\* GetOwnerAndGroupWindows answering with the empty identity and no error
GetOwnerAndGroupWindowsSilent(f, path) == [uid |-> <<>>, gid |-> <<>>, err |-> "nil"]

\* common.GetOwnerAndGroup of the Windows build: always an error
GetOwnerAndGroupWindows(f, path) ==
  [uid |-> <<>>, gid |-> <<>>, err |-> "owner and group checks are not supported"]

\* ------------------------------------------------------- the Create action

NoAction == 0
IfNotExists == 1
IfExists == 2

\* one terabyte, 1 << 40
TB == [tb |-> 1, b |-> 0]

\* what a Create step leaves: the filesystem, the Create value, the error and its
\* cause, the os calls made in order, whether the create-if-missing step ran and
\* whether its location was present when it did
Ran(f, c, err, cause, trace, ran, present) ==
  [fs |-> f, create |-> c, err |-> err, cause |-> cause, trace |-> trace,
   ran |-> ran, present |-> present]

\* file.Create.file
file(f, create) ==
  IF create.Kind # IfNotExists
  THEN Ran(f, create, "nil", "nil", <<>>, FALSE, FALSE)
  ELSE LET after == [create EXCEPT !.Kind = NoAction]
           present == Stat(f, create.Path).errno = "ok"
           o == OpenFile(f, create.Path, create.OpenFlag, create.FileMode)
           w == Write(o.fs, o.fd, create.Size)
       IN IF o.errno # "ok"
          THEN Ran(o.fs, after, "could not create file", o.errno,
                   <<"OpenFile">>, TRUE, present)
          ELSE IF SizeLess(TB, create.Size)
          THEN Ran(o.fs, after, "file size too big", "nil",
                   <<"OpenFile">>, TRUE, present)
          ELSE IF SizeLess(Bytes(0), create.Size)
          THEN IF w.errno # "ok"
               THEN Ran(w.fs, after, "could not write to file", w.errno,
                        <<"OpenFile", "Write">>, TRUE, present)
               ELSE Ran(w.fs, after, "nil", "nil",
                        <<"OpenFile", "Write">>, TRUE, present)
          ELSE Ran(o.fs, after, "nil", "nil", <<"OpenFile">>, TRUE, present)

\* replaceFile resetting Kind also when the removal fails
replaceFileKindReset(f, create) ==
  IF create.Kind # IfExists
  THEN Ran(f, create, "nil", "nil", <<>>, FALSE, FALSE)
  ELSE LET r == Remove(f, create.Path)
           c == file(r.fs, [create EXCEPT !.Kind = IfNotExists])
       IN IF r.errno # "ok"
          THEN Ran(r.fs, [create EXCEPT !.Kind = NoAction], "could not remove file",
                   r.errno, <<"Remove">>, FALSE, FALSE)
          ELSE [c EXCEPT !.trace = <<"Remove">> \o c.trace]

\* file.Create.replaceFile
replaceFile(f, create) ==
  IF create.Kind # IfExists
  THEN Ran(f, create, "nil", "nil", <<>>, FALSE, FALSE)
  ELSE LET r == Remove(f, create.Path)
           c == file(r.fs, [create EXCEPT !.Kind = IfNotExists])
       IN IF r.errno # "ok"
          THEN Ran(r.fs, create, "could not remove file", r.errno,
                   <<"Remove">>, FALSE, FALSE)
          ELSE [c EXCEPT !.trace = <<"Remove">> \o c.trace]

\* file.Create.Run
FileCreateRun(f, create) ==
  IF create.Kind = IfExists THEN replaceFile(f, create)
  ELSE IF create.Kind = IfNotExists THEN file(f, create)
  ELSE Ran(f, create, "create kind not supported", "nil", <<>>, FALSE, FALSE)

\* directory.Create.directory
directory(f, create) ==
  IF create.Kind # IfNotExists
  THEN Ran(f, create, "nil", "nil", <<>>, FALSE, FALSE)
  ELSE LET after == [create EXCEPT !.Kind = NoAction]
           present == Stat(f, create.Path).errno = "ok"
           m == MkdirAll(f, create.Path, create.FileMode)
       IN Ran(m.fs, after, IF m.errno = "ok" THEN "nil" ELSE "mkdir", 
              IF m.errno = "ok" THEN "nil" ELSE m.errno, <<"MkdirAll">>, TRUE, present)

\* directory.Create.replaceDirectory
replaceDirectory(f, create) ==
  IF create.Kind # IfExists
  THEN Ran(f, create, "nil", "nil", <<>>, FALSE, FALSE)
  ELSE LET r == RemoveAll(f, create.Path)
           c == directory(r.fs, [create EXCEPT !.Kind = IfNotExists])
       IN IF r.errno # "ok"
          THEN Ran(r.fs, create, "could not remove directory", r.errno,
                   <<"RemoveAll">>, FALSE, FALSE)
          ELSE [c EXCEPT !.trace = <<"RemoveAll">> \o c.trace]

\* directory.Create.Run
DirectoryCreateRun(f, create) ==
  IF create.Kind = IfExists THEN replaceDirectory(f, create)
  ELSE IF create.Kind = IfNotExists THEN directory(f, create)
  ELSE Ran(f, create, "create kind not supported", "nil", <<>>, FALSE, FALSE)

\* file.NewCreate: a pointer to a new zero Create, whatever its argument is
NewCreate(create) ==
  [Path |-> EmptyPath, Kind |-> NoAction, FileMode |-> 0,
   OpenFlag |-> Flag("r", FALSE, FALSE, FALSE, FALSE), Size |-> Bytes(0)]

\* ------------------------------------------------------------ package file

\* what a File or Directory call leaves: the filesystem, the error returned and its
\* cause, the number of Create.Run calls made, what the Run did, and the call's
\* own copy of the Create value at return
Returned(f, err, cause, create) ==
  [fs |-> f, err |-> err, cause |-> cause, runs |-> 0, trace |-> <<>>,
   ran |-> FALSE, present |-> FALSE, create |-> create]

RunReturned(r) ==
  [fs |-> r.fs, err |-> r.err, cause |-> r.cause, runs |-> 1, trace |-> r.trace,
   ran |-> r.ran, present |-> r.present, create |-> r.create]

\* File's predicates, from the creation time on, in the order of the code: info is
\* the snapshot taken by File's os.Stat; createTime, more, less and own are what
\* the helpers of package common return in the build at hand
FilePredicateSteps(info, path, opts, createTime, more, less, own) ==
  LET size == info.size
      mode == info.perm
      inBase == IsPathInBase(path, opts.RequireBaseDir)
  IN
  IF opts.CreatedBefore # 0 /\ createTime.err # "nil"
    THEN "failed to get creation time"
  ELSE IF opts.CreatedBefore # 0 /\ createTime.time > opts.CreatedBefore
    THEN "file created after specified time"
  ELSE IF opts.ModifiedBefore # 0 /\ info.mtime > opts.ModifiedBefore
    THEN "file modified after specified time"
  ELSE IF opts.RequireExt # <<>> /\ Ext(path) # opts.RequireExt
    THEN "incorrect file extension"
  ELSE IF opts.RequirePrefix # <<>> /\ ~HasPrefix(Base(path), opts.RequirePrefix)
    THEN "incorrect file prefix"
  ELSE IF opts.RequireBaseDir # EmptyPath /\ inBase.err # "nil"
    THEN "failed to check base directory"
  ELSE IF opts.RequireBaseDir # EmptyPath /\ ~inBase.ok
    THEN "ErrCheckBadBaseDir"
  ELSE IF opts.IsSize # Bytes(0) /\ size # opts.IsSize
    THEN "incorrect file size"
  ELSE IF opts.IsLessThan # Bytes(0) /\ ~SizeLess(size, opts.IsLessThan)
    THEN "file size is not less than"
  ELSE IF opts.IsGreaterThan # Bytes(0) /\ ~SizeLess(opts.IsGreaterThan, size)
    THEN "file size is not greater than"
  ELSE IF opts.IsBaseNameLen # 0 /\ Len(Base(path)) # opts.IsBaseNameLen
    THEN "incorrect base name length"
  ELSE IF opts.IsFileMode # 0 /\ mode # opts.IsFileMode
    THEN "incorrect file mode"
  ELSE IF opts.MorePermissiveThan # 0 /\ more.err # "nil"
    THEN "failed to check permissions"
  ELSE IF opts.MorePermissiveThan # 0 /\ ~more.ok
    THEN "file mode is less permissive than required"
  ELSE IF opts.LessPermissiveThan # 0 /\ less.err # "nil"
    THEN "failed to check permissions"
  ELSE IF opts.LessPermissiveThan # 0 /\ ~less.ok
    THEN "file mode is more permissive than allowed"
  ELSE IF opts.ReadOnly /\ BitAnd(mode, Oct(2, 2, 2)) # 0
    THEN "ErrCheckOpenPermissions"
  ELSE IF opts.WriteOnly /\ BitAnd(mode, Oct(4, 4, 4)) # 0
    THEN "file has read permissions when write-only required"
  ELSE IF opts.RequireWrite /\ BitAnd(mode, Oct(2, 0, 0)) = 0
    THEN "ErrCheckNoWritePermissions"
  ELSE IF (opts.RequireOwner # <<>> \/ opts.RequireGroup # <<>>) /\ own.err # "nil"
    THEN "failed to get owner/group"
  ELSE IF opts.RequireOwner # <<>> /\ own.uid # opts.RequireOwner
    THEN "ErrCheckBadOwner"
  ELSE IF opts.RequireGroup # <<>> /\ own.gid # opts.RequireGroup
    THEN "ErrCheckBadGroup"
  ELSE "nil"

\* FilePredicateChecks that never looks at RequireWrite
FilePredicateChecksNoRequireWrite(info, g, path, opts) ==
  FilePredicateSteps(info, path, [opts EXCEPT !.RequireWrite = FALSE],
                     GetCreationTime(g, path),
                     IsMorePermissiveThan(g, path, opts.MorePermissiveThan),
                     IsLessPermissiveThan(g, path, opts.LessPermissiveThan),
                     GetOwnerAndGroup(g, path))

\* File's predicates in the default build: g is the filesystem that the helpers of
\* package common look the path up in
FilePredicateChecks(info, g, path, opts) ==
  FilePredicateSteps(info, path, opts, GetCreationTime(g, path),
                     IsMorePermissiveThan(g, path, opts.MorePermissiveThan),
                     IsLessPermissiveThan(g, path, opts.LessPermissiveThan),
                     GetOwnerAndGroup(g, path))

\* File's predicates in the Windows build
FilePredicateChecksWindows(info, g, path, opts) ==
  FilePredicateSteps(info, path, opts, GetCreationTime(g, path),
                     IsMorePermissiveThanWindows(g, path, opts.MorePermissiveThan),
                     IsLessPermissiveThanWindows(g, path, opts.LessPermissiveThan),
                     GetOwnerAndGroupWindows(g, path))

\* FileChecks with the type check made after the predicates
FileChecksTypeLast(info, g, path, opts) ==
  IF FilePredicateChecks(info, g, path, opts) # "nil"
  THEN FilePredicateChecks(info, g, path, opts)
  ELSE IF ~IsRegular(info) THEN "not a regular file"
  ELSE "nil"

\* File once the path is found: the type check, then the predicates
FileChecks(info, g, path, opts) ==
  IF ~IsRegular(info) THEN "not a regular file"
  ELSE FilePredicateChecks(info, g, path, opts)

\* FileMissing with the Exists check made before the creation policy is looked at
FileMissingExistsFirst(f, path, opts) ==
  LET create == IF opts.Create.Path = EmptyPath
                THEN [opts.Create EXCEPT !.Path = path] ELSE opts.Create
  IN
  IF opts.Exists THEN Returned(f, "file does not exist", "nil", opts.Create)
  ELSE IF opts.Create.Kind = IfNotExists THEN RunReturned(FileCreateRun(f, create))
  ELSE Returned(f, "nil", "nil", opts.Create)

\* File when os.Stat reports that the path does not exist
FileMissing(f, path, opts) ==
  LET create == IF opts.Create.Path = EmptyPath
                THEN [opts.Create EXCEPT !.Path = path] ELSE opts.Create
  IN
  IF opts.Create.Kind = IfNotExists THEN RunReturned(FileCreateRun(f, create))
  ELSE IF opts.Exists THEN Returned(f, "file does not exist", "nil", opts.Create)
  ELSE Returned(f, "nil", "nil", opts.Create)

\* File running the creation policy on a path that is found, when Kind = IfExists
FileReplacing(f, path, opts) ==
  LET s == Stat(f, path)
      create == IF opts.Create.Path = EmptyPath
                THEN [opts.Create EXCEPT !.Path = path] ELSE opts.Create
  IN
  IF s.errno # "ok" THEN
    IF IsNotExist(s.errno) THEN FileMissing(f, path, opts)
    ELSE Returned(f, "failed to stat file", s.errno, opts.Create)
  ELSE IF opts.Create.Kind = IfExists THEN RunReturned(FileCreateRun(f, create))
  ELSE Returned(f, FileChecks(s.info, f, path, opts), "nil", opts.Create)

\* file.File
File(f, path, opts) ==
  LET s == Stat(f, path) IN
  IF s.errno # "ok" THEN
    IF IsNotExist(s.errno) THEN FileMissing(f, path, opts)
    ELSE Returned(f, "failed to stat file", s.errno, opts.Create)
  ELSE Returned(f, FileChecks(s.info, f, path, opts), "nil", opts.Create)

\* ------------------------------------------------------- package directory

\* Directory from the creation time check on, in the order of the code: info is
\* the snapshot taken by Directory's os.Stat; createTime, more, less and own are
\* what the helpers of package common return in the build at hand
DirectorySteps(info, path, opts, createTime, more, less, own) ==
  LET mode == info.perm
      inBase == IsPathInBase(path, opts.RequireBaseDir)
  IN
  IF opts.CreatedBefore # 0 /\ createTime.err # "nil"
    THEN "failed to get creation time"
  ELSE IF opts.CreatedBefore # 0 /\ createTime.time > opts.CreatedBefore
    THEN "directory created after specified time"
  ELSE IF opts.ModifiedBefore # 0 /\ info.mtime > opts.ModifiedBefore
    THEN "directory modified after specified time"
  ELSE IF opts.RequirePrefix # <<>> /\ ~HasPrefix(Base(path), opts.RequirePrefix)
    THEN "incorrect directory prefix"
  ELSE IF opts.RequireBaseDir # EmptyPath /\ inBase.err # "nil"
    THEN "failed to check base directory"
  ELSE IF opts.RequireBaseDir # EmptyPath /\ ~inBase.ok
    THEN "ErrCheckDirBadBaseDir"
  ELSE IF opts.ReadOnly /\ BitAnd(mode, Oct(2, 2, 2)) # 0
    THEN "ErrCheckDirOpenPermissions"
  ELSE IF opts.RequireWrite /\ BitAnd(mode, Oct(2, 0, 0)) = 0
    THEN "ErrCheckDirNoWritePermissions"
  ELSE IF opts.MorePermissiveThan # 0 /\ more.err # "nil"
    THEN "failed to check permissions"
  ELSE IF opts.MorePermissiveThan # 0 /\ ~more.ok
    THEN "directory mode is less permissive than required"
  ELSE IF opts.LessPermissiveThan # 0 /\ less.err # "nil"
    THEN "failed to check permissions"
  ELSE IF opts.LessPermissiveThan # 0 /\ ~less.ok
    THEN "directory mode is more permissive than allowed"
  ELSE IF (opts.RequireOwner # <<>> \/ opts.RequireGroup # <<>>) /\ own.err # "nil"
    THEN "failed to get owner/group"
  ELSE IF opts.RequireOwner # <<>> /\ own.uid # opts.RequireOwner
    THEN "ErrCheckDirBadOwner"
  ELSE IF opts.RequireGroup # <<>> /\ own.gid # opts.RequireGroup
    THEN "ErrCheckDirBadGroup"
  ELSE "nil"

\* Directory's predicates in the default build: g is the filesystem that the
\* helpers of package common look the path up in
DirectoryChecks(info, g, path, opts) ==
  DirectorySteps(info, path, opts, GetCreationTime(g, path),
                 IsMorePermissiveThan(g, path, opts.MorePermissiveThan),
                 IsLessPermissiveThan(g, path, opts.LessPermissiveThan),
                 GetOwnerAndGroup(g, path))

\* Directory's predicates in the Windows build
DirectoryChecksWindows(info, g, path, opts) ==
  DirectorySteps(info, path, opts, GetCreationTime(g, path),
                 IsMorePermissiveThanWindows(g, path, opts.MorePermissiveThan),
                 IsLessPermissiveThanWindows(g, path, opts.LessPermissiveThan),
                 GetOwnerAndGroupWindows(g, path))

\* ParentCheck with the IsDir test left out
ParentCheckNoDir(f, path) ==
  LET parentInfo == Stat(f, Dir(path)) IN
  IF parentInfo.errno # "ok" THEN "failed to access parent directory"
  ELSE IF BitAnd(parentInfo.info.perm, Oct(2, 0, 0)) = 0
    THEN "parent directory not writable"
  ELSE "nil"

\* the WillCreate block of directory.Directory: the error of the parent check
ParentCheck(f, path) ==
  LET parentInfo == Stat(f, Dir(path)) IN
  IF parentInfo.errno # "ok" THEN "failed to access parent directory"
  ELSE IF ~IsDir(parentInfo.info) THEN "parent path is not a directory"
  ELSE IF BitAnd(parentInfo.info.perm, Oct(2, 0, 0)) = 0
    THEN "parent directory not writable"
  ELSE "nil"

\* DirectoryMissing with the final Exists check left out
DirectoryMissingNoExists(f, path, opts, create) ==
  IF ~opts.Exists /\ create.Kind = NoAction THEN Returned(f, "nil", "nil", create)
  ELSE IF create.Kind = IfNotExists THEN RunReturned(DirectoryCreateRun(f, create))
  ELSE Returned(f, "nil", "nil", create)

\* Directory when os.Stat reports that the path does not exist
DirectoryMissing(f, path, opts, create) ==
  IF ~opts.Exists /\ create.Kind = NoAction THEN Returned(f, "nil", "nil", create)
  ELSE IF create.Kind = IfNotExists THEN RunReturned(DirectoryCreateRun(f, create))
  ELSE IF opts.Exists /\ ~opts.WillCreate
    THEN Returned(f, "directory does not exist", "nil", create)
  ELSE Returned(f, "nil", "nil", create)

\* DirectoryExisting with the type check made before the existence expectation
DirectoryExistingTypeFirst(info, f, path, opts, create) ==
  IF ~IsDir(info) THEN Returned(f, "not a directory", "nil", create)
  ELSE IF ~opts.Exists /\ ~opts.WillCreate
    THEN Returned(f, "directory exists but was expected not to exist", "nil", create)
  ELSE IF opts.Exists /\ create.Kind = IfExists
    THEN RunReturned(DirectoryCreateRun(f, create))
  ELSE Returned(f, DirectoryChecks(info, f, path, opts), "nil", create)

\* Directory once the path is found: the existence expectation, the type check,
\* the replace policy, then the predicates
DirectoryExisting(info, f, path, opts, create) ==
  IF ~opts.Exists /\ ~opts.WillCreate
    THEN Returned(f, "directory exists but was expected not to exist", "nil", create)
  ELSE IF ~IsDir(info) THEN Returned(f, "not a directory", "nil", create)
  ELSE IF opts.Exists /\ create.Kind = IfExists
    THEN RunReturned(DirectoryCreateRun(f, create))
  ELSE Returned(f, DirectoryChecks(info, f, path, opts), "nil", create)

\* directory.Directory
Directory(f, path, opts) ==
  LET kind == IF opts.WillCreate /\ opts.Create.Kind = NoAction
              THEN IfNotExists ELSE opts.Create.Kind
      forced == [opts.Create EXCEPT !.Kind = kind]
      create == IF kind # NoAction /\ opts.Create.Path = EmptyPath
                THEN [forced EXCEPT !.Path = path] ELSE forced
      parent == ParentCheck(f, path)
      s == Stat(f, path)
  IN
  IF opts.WillCreate /\ parent # "nil" THEN Returned(f, parent, "nil", forced)
  ELSE IF s.errno # "ok" THEN
    IF IsNotExist(s.errno) THEN DirectoryMissing(f, path, opts, create)
    ELSE Returned(f, "failed to stat directory", s.errno, create)
  ELSE DirectoryExisting(s.info, f, path, opts, create)

\* ----------------------------------------------------------------- inputs

ReadOnlyFlag == Flag("r", FALSE, FALSE, FALSE, FALSE)
\* os.O_CREATE|os.O_TRUNC|os.O_WRONLY
CreateTruncFlag == Flag("w", TRUE, TRUE, FALSE, FALSE)
\* os.O_CREATE|os.O_EXCL|os.O_WRONLY
CreateExclFlag == Flag("w", TRUE, FALSE, TRUE, FALSE)

OpenFlags == {ReadOnlyFlag, CreateTruncFlag, CreateExclFlag}

Times == 1..MaxTime
Sizes == {Bytes(n) : n \in 1..MaxBytes}
CreateSizes == {Bytes(0), Bytes(1), [tb |-> 1, b |-> 1]}

FileCreateDefault ==
  [Path |-> EmptyPath, Kind |-> NoAction, FileMode |-> 0, OpenFlag |-> ReadOnlyFlag,
   Size |-> Bytes(0)]

FileCreates ==
  {[Path |-> p, Kind |-> k, FileMode |-> Oct(6, 4, 4), OpenFlag |-> o, Size |-> n] :
     p \in {EmptyPath, pA, pN}, k \in {IfNotExists, IfExists}, o \in OpenFlags,
     n \in CreateSizes}

FileDefault ==
  [CreatedBefore |-> 0, ModifiedBefore |-> 0, IsLessThan |-> Bytes(0),
   IsSize |-> Bytes(0), IsGreaterThan |-> Bytes(0), RequireExt |-> <<>>,
   RequirePrefix |-> <<>>, RequireOwner |-> <<>>, RequireGroup |-> <<>>,
   RequireBaseDir |-> EmptyPath, IsFileMode |-> 0, MorePermissiveThan |-> 0,
   LessPermissiveThan |-> 0, IsBaseNameLen |-> 0, RequireWrite |-> FALSE,
   ReadOnly |-> FALSE, WriteOnly |-> FALSE, Exists |-> FALSE,
   Create |-> FileCreateDefault]

\* the options with one predicate configured
FileSingles ==
  {[FileDefault EXCEPT !.CreatedBefore = t] : t \in Times}
  \cup {[FileDefault EXCEPT !.ModifiedBefore = t] : t \in Times}
  \cup {[FileDefault EXCEPT !.IsLessThan = n] : n \in Sizes}
  \cup {[FileDefault EXCEPT !.IsSize = n] : n \in Sizes}
  \cup {[FileDefault EXCEPT !.IsGreaterThan = n] : n \in Sizes}
  \cup {[FileDefault EXCEPT !.RequireExt = <<".", "t">>]}
  \cup {[FileDefault EXCEPT !.RequirePrefix = <<"a">>]}
  \cup {[FileDefault EXCEPT !.RequireOwner = o] : o \in {<<"5">>, <<"0", "5">>}}
  \cup {[FileDefault EXCEPT !.RequireGroup = g] : g \in {<<"1", "0">>, <<"1">>}}
  \cup {[FileDefault EXCEPT !.RequireBaseDir = b] : b \in {pD, pR}}
  \cup {[FileDefault EXCEPT !.IsFileMode = Oct(6, 4, 4)]}
  \cup {[FileDefault EXCEPT !.MorePermissiveThan = Oct(6, 0, 0)]}
  \cup {[FileDefault EXCEPT !.LessPermissiveThan = Oct(6, 0, 0)]}
  \cup {[FileDefault EXCEPT !.IsBaseNameLen = 3]}
  \cup {[FileDefault EXCEPT !.RequireWrite = TRUE]}
  \cup {[FileDefault EXCEPT !.ReadOnly = TRUE]}
  \cup {[FileDefault EXCEPT !.WriteOnly = TRUE]}
  \cup {[FileDefault EXCEPT !.Exists = TRUE]}

\* b's configured fields laid over a
Merge(a, b, default) ==
  [k \in DOMAIN a |-> IF b[k] # default[k] THEN b[k] ELSE a[k]]

\* the scenario of the tests: extension, base directory, size bound, write bit
FileScenario ==
  [FileDefault EXCEPT !.RequireExt = <<".", "t">>, !.RequireBaseDir = pD,
                      !.IsLessThan = Bytes(MaxBytes), !.RequireWrite = TRUE]

\* the predicates that are configured together with each of the others
FileSeconds ==
  {[FileDefault EXCEPT !.ModifiedBefore = 1],
   [FileDefault EXCEPT !.IsGreaterThan = Bytes(1)],
   [FileDefault EXCEPT !.RequireExt = <<".", "t">>],
   [FileDefault EXCEPT !.RequireBaseDir = pD],
   [FileDefault EXCEPT !.LessPermissiveThan = Oct(6, 0, 0)],
   [FileDefault EXCEPT !.RequireWrite = TRUE],
   [FileDefault EXCEPT !.RequireOwner = <<"5">>]}

FilePredicates ==
  {FileDefault, FileScenario}
  \cup {Merge(a, b, FileDefault) : a \in FileSingles, b \in FileSeconds}

FileOptions ==
  FilePredicates
  \cup {[o EXCEPT !.Create = c] :
          o \in {FileDefault,
                 [FileDefault EXCEPT !.IsSize = Bytes(MaxBytes), !.Exists = TRUE]},
          c \in FileCreates}

DirectoryCreateDefault == [Kind |-> NoAction, FileMode |-> 0, Path |-> EmptyPath]

DirectoryCreates ==
  {[Kind |-> k, FileMode |-> m, Path |-> p] :
     k \in {IfNotExists, IfExists}, m \in {Oct(7, 5, 5), 0}, p \in {EmptyPath, pD, pN}}

DirectoryDefault ==
  [CreatedBefore |-> 0, ModifiedBefore |-> 0, RequireOwner |-> <<>>,
   RequireGroup |-> <<>>, RequireBaseDir |-> EmptyPath, RequireExt |-> <<>>,
   RequirePrefix |-> <<>>, MorePermissiveThan |-> 0, LessPermissiveThan |-> 0,
   ReadOnly |-> FALSE, RequireWrite |-> FALSE, WillCreate |-> FALSE,
   Create |-> DirectoryCreateDefault, Exists |-> FALSE]

DirectorySingles ==
  {[DirectoryDefault EXCEPT !.CreatedBefore = t] : t \in Times}
  \cup {[DirectoryDefault EXCEPT !.ModifiedBefore = t] : t \in Times}
  \cup {[DirectoryDefault EXCEPT !.RequireOwner = o] : o \in {<<"5">>, <<"0", "5">>}}
  \cup {[DirectoryDefault EXCEPT !.RequireGroup = g] : g \in {<<"1", "0">>, <<"1">>}}
  \cup {[DirectoryDefault EXCEPT !.RequireBaseDir = b] : b \in {pD, pR}}
  \cup {[DirectoryDefault EXCEPT !.RequireExt = <<".", "t">>]}
  \cup {[DirectoryDefault EXCEPT !.RequirePrefix = <<"d">>]}
  \cup {[DirectoryDefault EXCEPT !.MorePermissiveThan = Oct(7, 0, 0)]}
  \cup {[DirectoryDefault EXCEPT !.LessPermissiveThan = Oct(5, 5, 5)]}
  \cup {[DirectoryDefault EXCEPT !.ReadOnly = TRUE]}
  \cup {[DirectoryDefault EXCEPT !.RequireWrite = TRUE]}
  \cup {[DirectoryDefault EXCEPT !.WillCreate = TRUE]}

DirectorySeconds ==
  {[DirectoryDefault EXCEPT !.ModifiedBefore = 1],
   [DirectoryDefault EXCEPT !.RequirePrefix = <<"d">>],
   [DirectoryDefault EXCEPT !.RequireBaseDir = pD],
   [DirectoryDefault EXCEPT !.LessPermissiveThan = Oct(5, 5, 5)],
   [DirectoryDefault EXCEPT !.RequireWrite = TRUE],
   [DirectoryDefault EXCEPT !.RequireGroup = <<"1", "0">>]}

DirectoryPredicates ==
  {DirectoryDefault}
  \cup {Merge(a, b, DirectoryDefault) : a \in DirectorySingles, b \in DirectorySeconds}

DirectoryOptions ==
  DirectoryPredicates
  \cup {[o EXCEPT !.Exists = TRUE] : o \in DirectoryPredicates}
  \cup {[o EXCEPT !.Create = c, !.WillCreate = w, !.Exists = e] :
          o \in {DirectoryDefault, [DirectoryDefault EXCEPT !.RequirePrefix = <<"d">>]},
          c \in DirectoryCreates, w \in BOOLEAN, e \in BOOLEAN}

\* the paths File and Directory are called on
CallPaths == {pD, pA, pS, pW, pV, pN, pR, pK, pRN, pMX, pAZ}

\* ------------------------------------------------------------ the program

InitialFs ==
  [p \in Universe |->
     IF p \in {Root, pD} THEN Entry("dir", Oct(7, 5, 5), Bytes(0), "none", 1, 1, EmptyPath)
     ELSE IF p = pA THEN Entry("file", Oct(6, 4, 4), Bytes(1), "orig", 1, 1, EmptyPath)
     ELSE IF p = pS THEN Entry("symlink", Oct(7, 7, 7), Bytes(0), "none", 1, 1, pA)
     ELSE IF p = pW THEN Entry("file", Oct(2, 0, 0), Bytes(0), "orig", MaxTime, MaxTime, EmptyPath)
     ELSE IF p = pV THEN Entry("special", Oct(6, 6, 6), Bytes(0), "none", 1, 1, EmptyPath)
     ELSE IF p = pR THEN Entry("dir", Oct(5, 5, 5), Bytes(0), "none", MaxTime, MaxTime, EmptyPath)
     ELSE IF p = pK THEN Entry("file", Oct(4, 0, 0), Bytes(MaxBytes), "orig", MaxTime, 1, EmptyPath)
     ELSE NoEntry]

\* what the caller keeps of a call's outcome: the filesystem it left is in fs
Kept(out) == [k \in DOMAIN out \ {"fs"} |-> out[k]]

\* HeldOptions as if Options were passed by reference: the Create inside it is
\* the one the call wrote to
HeldOptionsShared(opts, out) == [opts EXCEPT !.Create = out.create]

\* HeldOptions as if the Kind reset of a Create step reached the caller
HeldOptionsKindReset(opts, out) == [opts EXCEPT !.Create.Kind = out.create.Kind]

\* the caller's Options value after File or Directory returns: Options, with the
\* Create inside it, is passed by value, so what the call did to its copy is lost
HeldOptions(opts, out) == opts

\* HeldCreate as if Run had a value receiver
HeldCreateCopied(create, out) == [Create |-> create]

\* the caller's Create value after Run returns: Run has a pointer receiver, so the
\* caller's value is the one Run wrote to
HeldCreate(create, out) == [Create |-> out.create]

\* what is remembered of the call before a repeated one
NoFirst ==
  [opts |-> FileDefault, err |-> "nil", cause |-> "nil", ran |-> FALSE,
   changed |-> FALSE, missing |-> FALSE]

NoCall ==
  [op |-> "none", path |-> EmptyPath, opts |-> FileDefault, before |-> InitialFs,
   held |-> FileDefault, again |-> "no", first |-> NoFirst,
   out |-> Kept(Returned(InitialFs, "nil", "nil", FileCreateDefault))]

Init ==
  /\ fs = InitialFs
  /\ last = NoCall
  /\ calls = 0

\* a call made on the filesystem as it is: what it was given, what it left, what
\* the caller holds afterwards
Called(op, path, opts, out, held, again, first) ==
  /\ fs' = out.fs
  /\ last' = [op |-> op, path |-> path, opts |-> opts, before |-> fs,
              held |-> held, again |-> again, first |-> first,
              out |-> Kept(out)]
  /\ calls' = calls + 1

\* a call of File or Directory: the caller holds its Options value afterwards
Checked(op, path, opts, out, again, first) ==
  Called(op, path, opts, out, HeldOptions(opts, out), again, first)

\* a call of Run: the caller holds the Create value Run wrote to
RunCall(op, create, out, again, first) ==
  Called(op, create.Path, [Create |-> create], out, HeldCreate(create, out),
         again, first)

\* a call of file.File
CallFile ==
  /\ last.op = "none" /\ calls < MaxCalls
  /\ \E path \in CallPaths, opts \in FileOptions :
       Checked("File", path, opts, File(fs, path, opts), "no", NoFirst)

\* a call of directory.Directory
CallDirectory ==
  /\ last.op = "none" /\ calls < MaxCalls
  /\ \E path \in CallPaths, opts \in DirectoryOptions :
       Checked("Directory", path, opts, Directory(fs, path, opts), "no", NoFirst)

\* a call of Run on a file.Create value
CallFileCreateRun ==
  /\ last.op = "none" /\ calls < MaxCalls
  /\ \E create \in FileCreates \cup {FileCreateDefault} :
       RunCall("FileCreateRun", create, RunReturned(FileCreateRun(fs, create)),
               "no", NoFirst)

\* a call of Run on a directory.Create value
CallDirectoryCreateRun ==
  /\ last.op = "none" /\ calls < MaxCalls
  /\ \E create \in DirectoryCreates \cup {DirectoryCreateDefault} :
       RunCall("DirectoryCreateRun", create,
               RunReturned(DirectoryCreateRun(fs, create)), "no", NoFirst)

\* the caller drops the result: nothing but the filesystem is kept between calls
Discard ==
  /\ last.op # "none" /\ calls < MaxCalls
  /\ last' = NoCall
  /\ UNCHANGED <<fs, calls>>

Next ==
  \/ CallFile
  \/ CallDirectory
  \/ CallFileCreateRun
  \/ CallDirectoryCreateRun
  \/ Discard

Spec == Init /\ [][Next]_vars

\* ------------------------------ a call while another process changes modes

\* os.Chmod by another process
Chmod(f, p, perm) ==
  IF Stat(f, p).errno # "ok" THEN f ELSE [f EXCEPT ![p].perm = perm]

\* the modes another process sets
OtherModes == {0, Oct(6, 0, 0), Oct(7, 7, 7)}

\* file.File when the filesystem is f at File's os.Stat and g from then on
FileWhile(f, g, path, opts) ==
  IF Stat(f, path).errno = "ok"
  THEN Returned(g, FileChecks(Stat(f, path).info, g, path, opts), "nil", opts.Create)
  ELSE IF IsNotExist(Stat(f, path).errno) THEN FileMissing(g, path, opts)
  ELSE Returned(g, "failed to stat file", Stat(f, path).errno, opts.Create)

\* directory.Directory with Create.Kind = NoAction and WillCreate unset, when the
\* filesystem is g from right after Directory's os.Stat on
DirectoryWhile(f, g, path, opts) ==
  IF Stat(f, path).errno # "ok" THEN Directory(g, path, opts)
  ELSE DirectoryExisting(Stat(f, path).info, g, path, opts, opts.Create)

\* a call of File on a path whose mode another process changes meanwhile
CallFileWhile ==
  /\ last.op = "none" /\ calls < MaxCalls
  /\ \E path \in CallPaths, opts \in FilePredicates, perm \in OtherModes :
       Checked("File", path, opts,
               FileWhile(fs, Chmod(fs, path, perm), path, opts), "no", NoFirst)

\* a call of Directory on a path whose mode another process changes meanwhile
CallDirectoryWhile ==
  /\ last.op = "none" /\ calls < MaxCalls
  /\ \E path \in CallPaths, opts \in DirectoryPredicates, perm \in OtherModes :
       /\ ~opts.WillCreate
       /\ Checked("Directory", path, [opts EXCEPT !.Exists = TRUE],
                  DirectoryWhile(fs, Chmod(fs, path, perm), path,
                                 [opts EXCEPT !.Exists = TRUE]),
                  "no", NoFirst)

NextWhile ==
  \/ CallFileWhile
  \/ CallDirectoryWhile

SpecWhile == Init /\ [][NextWhile]_vars

\* ------------------------------------- modes and sizes of one regular file

\* permission modes, of the file and as references
Modes ==
  {0, Oct(2, 0, 0), Oct(4, 0, 0), Oct(4, 4, 4), Oct(6, 0, 0), Oct(6, 4, 4),
   Oct(6, 6, 6), Oct(7, 0, 0), Oct(7, 5, 5), Oct(7, 7, 7)}

\* Options with one size predicate, at and around the sizes a file has
SizeOptions ==
  {[FileDefault EXCEPT !.IsSize = Bytes(n)] : n \in 0..(MaxBytes + 1)}
  \cup {[FileDefault EXCEPT !.IsLessThan = Bytes(n)] : n \in 0..(MaxBytes + 1)}
  \cup {[FileDefault EXCEPT !.IsGreaterThan = Bytes(n)] : n \in -1..MaxBytes}

\* /d/a.t is a regular file of any of the modes and sizes
InitAttr ==
  /\ fs \in {[InitialFs EXCEPT ![pA].perm = m, ![pA].size = Bytes(n)] :
               m \in Modes, n \in 0..MaxBytes}
  /\ last = NoCall
  /\ calls = 0

\* a call of a helper of package common: it changes nothing
Applied(op, path, ref, out) ==
  /\ last' = [op |-> op, path |-> path, opts |-> [ref |-> ref], before |-> fs,
              held |-> [ref |-> ref], again |-> "no", first |-> NoFirst,
              out |-> out]
  /\ calls' = calls + 1
  /\ UNCHANGED fs

CallIsMorePermissiveThan ==
  /\ last.op = "none" /\ calls < MaxCalls
  /\ \E ref \in Modes :
       Applied("IsMorePermissiveThan", pA, ref, IsMorePermissiveThan(fs, pA, ref))

CallIsLessPermissiveThan ==
  /\ last.op = "none" /\ calls < MaxCalls
  /\ \E ref \in Modes :
       Applied("IsLessPermissiveThan", pA, ref, IsLessPermissiveThan(fs, pA, ref))

CallIsMorePermissiveThanWindows ==
  /\ last.op = "none" /\ calls < MaxCalls
  /\ \E ref \in Modes :
       Applied("IsMorePermissiveThanWindows", pA, ref,
               IsMorePermissiveThanWindows(fs, pA, ref))

CallIsLessPermissiveThanWindows ==
  /\ last.op = "none" /\ calls < MaxCalls
  /\ \E ref \in Modes :
       Applied("IsLessPermissiveThanWindows", pA, ref,
               IsLessPermissiveThanWindows(fs, pA, ref))

\* a call of File with one size predicate
CallFileSize ==
  /\ last.op = "none" /\ calls < MaxCalls
  /\ \E opts \in SizeOptions :
       Checked("File", pA, opts, File(fs, pA, opts), "no", NoFirst)

NextAttr ==
  \/ CallIsMorePermissiveThan
  \/ CallIsLessPermissiveThan
  \/ CallIsMorePermissiveThanWindows
  \/ CallIsLessPermissiveThanWindows
  \/ CallFileSize

SpecAttr == InitAttr /\ [][NextAttr]_vars

\* --------------------------------------------------- paths against a base

nDD == <<"d", "d">>
nDotsX == <<".", ".", "x">>

\* paths and base directories: empty, absolute, unclean, relative
PathInputs ==
  {EmptyPath, Root, pD, pA, pR, <<Sep, nDD>>, <<Sep, nD, nDotsX>>,
   <<Sep, nD, DotDot>>, <<Sep, nD, DotDot, nR>>, <<Sep, nD, Dot, nA>>,
   <<Sep, nD, nA, DotDot>>, <<nA>>, <<DotDot, nR>>, <<nDotsX>>}

CallIsPathInBase ==
  /\ last.op = "none" /\ calls < MaxCalls
  /\ \E path \in PathInputs, baseDir \in PathInputs :
       Applied("IsPathInBase", path, baseDir, IsPathInBase(path, baseDir))

NextPath == CallIsPathInBase

SpecPath == Init /\ [][NextPath]_vars

\* ------------------------------------------------------ the Windows build

\* file.File in the Windows build: the helpers of package common are called once
\* the path is found and is a regular file; up to there the builds are the same
FileWindows(f, path, opts) ==
  LET s == Stat(f, path) IN
  IF s.errno # "ok" \/ ~IsRegular(s.info) THEN File(f, path, opts)
  ELSE Returned(f, FilePredicateChecksWindows(s.info, f, path, opts), "nil",
                opts.Create)

\* directory.Directory in the Windows build: the helpers of package common are
\* called once the parent check, the existence expectation, the type check and
\* the replace policy are passed; up to there the builds are the same
DirectoryWindows(f, path, opts) ==
  LET s == Stat(f, path)
      passed == /\ ~(opts.WillCreate /\ ParentCheck(f, path) # "nil")
                /\ s.errno = "ok"
                /\ (opts.Exists \/ opts.WillCreate)
                /\ IsDir(s.info)
                /\ ~(opts.Exists /\ opts.Create.Kind = IfExists)
  IN IF ~passed THEN Directory(f, path, opts)
     ELSE [Directory(f, path, opts) EXCEPT
             !.err = DirectoryChecksWindows(s.info, f, path, opts)]

CallFileWindows ==
  /\ last.op = "none" /\ calls < MaxCalls
  /\ \E path \in CallPaths, opts \in FilePredicates :
       Checked("File", path, opts, FileWindows(fs, path, opts), "no", NoFirst)

CallDirectoryWindows ==
  /\ last.op = "none" /\ calls < MaxCalls
  /\ \E path \in CallPaths, opts \in DirectoryPredicates, exists \in BOOLEAN :
       Checked("Directory", path, [opts EXCEPT !.Exists = exists],
               DirectoryWindows(fs, path, [opts EXCEPT !.Exists = exists]),
               "no", NoFirst)

NextWindows ==
  \/ CallFileWindows
  \/ CallDirectoryWindows

SpecWindows == Init /\ [][NextWindows]_vars

\* --------------------------------------- coarse permission flags and modes

\* modes with the write and read bits of owner, group and others set apart
FlagModes ==
  {0, Oct(0, 2, 0), Oct(0, 4, 0), Oct(2, 0, 0), Oct(4, 0, 0), Oct(4, 4, 4),
   Oct(6, 4, 4), Oct(7, 5, 5)}

\* one coarse flag, alone or with permissiveness bounds
FileFlagOptions ==
  {[o EXCEPT !.MorePermissiveThan = more, !.LessPermissiveThan = less] :
     o \in {[FileDefault EXCEPT !.ReadOnly = TRUE],
            [FileDefault EXCEPT !.WriteOnly = TRUE],
            [FileDefault EXCEPT !.RequireWrite = TRUE]},
     more \in {0, Oct(4, 0, 0)}, less \in {0, Oct(6, 4, 4)}}

DirectoryFlagOptions ==
  {[o EXCEPT !.MorePermissiveThan = more, !.LessPermissiveThan = less,
             !.Exists = TRUE] :
     o \in {[DirectoryDefault EXCEPT !.ReadOnly = TRUE],
            [DirectoryDefault EXCEPT !.RequireWrite = TRUE]},
     more \in {0, Oct(4, 0, 0)}, less \in {0, Oct(6, 4, 4)}}

\* the file /d/a.t and the directory /r have any of the modes
InitFlags ==
  /\ fs \in {[InitialFs EXCEPT ![pA].perm = m, ![pR].perm = m] : m \in FlagModes}
  /\ last = NoCall
  /\ calls = 0

CallFileFlags ==
  /\ last.op = "none" /\ calls < MaxCalls
  /\ \E opts \in FileFlagOptions :
       Checked("File", pA, opts, File(fs, pA, opts), "no", NoFirst)

CallDirectoryFlags ==
  /\ last.op = "none" /\ calls < MaxCalls
  /\ \E opts \in DirectoryFlagOptions :
       Checked("Directory", pR, opts, Directory(fs, pR, opts), "no", NoFirst)

NextFlags ==
  \/ CallFileFlags
  \/ CallDirectoryFlags

SpecFlags == InitFlags /\ [][NextFlags]_vars

\* ------------------------------------------------- Run on a Create value

\* file.NewCreate(&create).Run(): the caller's create is not written to
CallNewCreateRun ==
  /\ last.op = "none" /\ calls < MaxCalls
  /\ \E create \in FileCreates :
       Called("NewCreateRun", create.Path, [Create |-> create],
              RunReturned(FileCreateRun(fs, NewCreate(create))),
              [Create |-> create], "no", NoFirst)

NextRun ==
  \/ CallFileCreateRun
  \/ CallDirectoryCreateRun
  \/ CallNewCreateRun
  \/ Discard

SpecRun == Init /\ [][NextRun]_vars

\* ------------------------------------ a call beside a call on another path

\* the File calls made on a path while another path is worked on
BesideOptions ==
  {FileDefault, [FileDefault EXCEPT !.Exists = TRUE],
   [FileDefault EXCEPT !.IsSize = Bytes(1)],
   [FileDefault EXCEPT !.Create =
      [Path |-> EmptyPath, Kind |-> IfNotExists, FileMode |-> Oct(6, 4, 4),
       OpenFlag |-> CreateTruncFlag, Size |-> Bytes(0)]]}

\* the calls made on the other path: they create or replace
OtherFileOptions == {[FileDefault EXCEPT !.Create = c] : c \in FileCreates}

OtherDirectoryOptions ==
  {[DirectoryDefault EXCEPT !.Create = c, !.Exists = e] :
     c \in DirectoryCreates, e \in BOOLEAN}

\* a File call on path; other is what the whole call on the other path leaves,
\* made before this call's os.Stat ("first") or right after it ("between");
\* alone is what this call leaves when nothing else runs
Beside(path, opts, when, other, alone) ==
  Called("File", path, opts,
         FileWhile(IF when = "first" THEN other.fs ELSE fs, other.fs, path, opts),
         opts, when, [err |-> alone.err, entry |-> alone.fs[path]])

CallFileBesideFile ==
  /\ last.op = "none" /\ calls < MaxCalls
  /\ \E path \in CallPaths, opts \in BesideOptions, when \in {"first", "between"} :
       \E q \in CallPaths \ {path}, qopts \in OtherFileOptions :
         Beside(path, opts, when, File(fs, q, qopts), File(fs, path, opts))

CallFileBesideDirectory ==
  /\ last.op = "none" /\ calls < MaxCalls
  /\ \E path \in CallPaths, opts \in BesideOptions, when \in {"first", "between"} :
       \E q \in CallPaths \ {path}, qopts \in OtherDirectoryOptions :
         Beside(path, opts, when, Directory(fs, q, qopts), File(fs, path, opts))

NextBeside ==
  \/ CallFileBesideFile
  \/ CallFileBesideDirectory

SpecBeside == Init /\ [][NextBeside]_vars

\* ------------------------------------ one call, a link dangling or not

\* the filesystem as it is at first, or with /d/a.t removed, which leaves the
\* link /d/s dangling
InitEither ==
  /\ fs \in {InitialFs, [InitialFs EXCEPT ![pA] = NoEntry]}
  /\ last = NoCall
  /\ calls = 0

NextOnce ==
  \/ CallFile
  \/ CallDirectory

SpecOnce == InitEither /\ [][NextOnce]_vars

\* ---------------------------------------------- one call, then a second one

\* what a second call remembers of the one before it
First ==
  [opts |-> last.opts, err |-> last.out.err, cause |-> last.out.cause,
   ran |-> last.out.ran, changed |-> fs # last.before,
   missing |-> Stat(last.before, last.path).errno = "ENOENT"]

\* the caller calls File again, with the Options value it holds
CallFileAgain ==
  /\ last.op = "File" /\ last.again = "no" /\ calls < MaxCalls
  /\ Checked("File", last.path, last.held, File(fs, last.path, last.held),
             "same", First)

\* the caller calls Directory again, with the Options value it holds
CallDirectoryAgain ==
  /\ last.op = "Directory" /\ last.again = "no" /\ calls < MaxCalls
  /\ Checked("Directory", last.path, last.held,
             Directory(fs, last.path, last.held), "same", First)

\* the caller calls Run again on the file.Create value it holds
CallFileCreateRunAgain ==
  /\ last.op = "FileCreateRun" /\ last.again = "no" /\ calls < MaxCalls
  /\ RunCall("FileCreateRun", last.held.Create,
             RunReturned(FileCreateRun(fs, last.held.Create)), "same", First)

\* the caller calls Run again on the directory.Create value it holds
CallDirectoryCreateRunAgain ==
  /\ last.op = "DirectoryCreateRun" /\ last.again = "no" /\ calls < MaxCalls
  /\ RunCall("DirectoryCreateRun", last.held.Create,
             RunReturned(DirectoryCreateRun(fs, last.held.Create)), "same", First)

\* Options with Exists alone
ExistsOnly == [FileDefault EXCEPT !.Exists = TRUE]

\* after a File call, the caller checks the same path with Exists alone
CallFileExists ==
  /\ last.op = "File" /\ last.again = "no" /\ calls < MaxCalls
  /\ Checked("File", last.path, ExistsOnly, File(fs, last.path, ExistsOnly),
             "exists", First)

NextAgain ==
  \/ CallFile
  \/ CallDirectory
  \/ CallFileCreateRun
  \/ CallDirectoryCreateRun
  \/ CallFileAgain
  \/ CallDirectoryAgain
  \/ CallFileCreateRunAgain
  \/ CallDirectoryCreateRunAgain
  \/ CallFileExists

SpecAgain == Init /\ [][NextAgain]_vars

TypeOK ==
  /\ DOMAIN fs = Universe
  /\ calls \in 0..MaxCalls
  /\ last.op \in {"none", "File", "Directory", "FileCreateRun", "DirectoryCreateRun"}
  /\ \A p \in Universe : fs[p].kind # "absent" /\ p # Root => fs[Dir(p)].kind = "dir"

\* ----------------------------------------------------------------- claims

\* what the last call's own os.Stat of its path found
Target == Stat(last.before, last.path)

IsCheck == last.op \in {"File", "Directory"}

\* base is path or one of the directories above it
InsideBase(path, base) ==
  Len(Clean(base)) <= Len(Clean(path))
  /\ SubSeq(Clean(path), 1, Len(Clean(base))) = Clean(base)

\* every configured predicate of a File call holds of the entry e at path
FilePredicatesHold(e, path, o) ==
  /\ o.CreatedBefore # 0 => e.ctime <= o.CreatedBefore
  /\ o.ModifiedBefore # 0 => e.mtime <= o.ModifiedBefore
  /\ o.RequireExt # <<>> => Ext(path) = o.RequireExt
  /\ o.RequirePrefix # <<>> => HasPrefix(path[Len(path)], o.RequirePrefix)
  /\ o.RequireBaseDir # EmptyPath => InsideBase(path, o.RequireBaseDir)
  /\ o.IsSize # Bytes(0) => e.size = o.IsSize
  /\ o.IsLessThan # Bytes(0) => SizeLess(e.size, o.IsLessThan)
  /\ o.IsGreaterThan # Bytes(0) => SizeLess(o.IsGreaterThan, e.size)
  /\ o.IsBaseNameLen # 0 => Len(path[Len(path)]) = o.IsBaseNameLen
  /\ o.IsFileMode # 0 => e.perm = o.IsFileMode
  /\ o.MorePermissiveThan # 0 =>
       BitAnd(e.perm, o.MorePermissiveThan) = o.MorePermissiveThan
  /\ o.LessPermissiveThan # 0 =>
       BitAnd(e.perm, o.LessPermissiveThan) = e.perm
  /\ o.ReadOnly => BitAnd(e.perm, Oct(2, 2, 2)) = 0
  /\ o.WriteOnly => BitAnd(e.perm, Oct(4, 4, 4)) = 0
  /\ o.RequireWrite => BitAnd(e.perm, Oct(2, 0, 0)) # 0
  /\ o.RequireOwner # <<>> => Sprint(e.uid) = o.RequireOwner
  /\ o.RequireGroup # <<>> => Sprint(e.gid) = o.RequireGroup

\* C1: on an existing regular file, with no creation policy, File succeeds exactly
\* when every configured predicate holds of the file; Exists constrains nothing.
C1_FileIsConjunction ==
  (last.op = "File" /\ Target.errno = "ok" /\ Target.info.kind = "file"
     /\ last.opts.Create.Kind = NoAction)
  => (last.out.err = "nil" <=> FilePredicatesHold(Target.info, last.path, last.opts))

\* the scenario of the tests passes on /d/a.t
C1_Witness ==
  /\ last.op = "File" /\ last.path = pA /\ last.opts = FileScenario
  /\ Target.info.kind = "file" /\ last.out.err = "nil"

NotFound == {"file does not exist", "directory does not exist"}

\* C2: on a missing path, with no creation policy and WillCreate unset, File and
\* Directory fail with NotFound exactly when Exists is set, and succeed otherwise
\* whatever else is configured.
C2_MissingIsExists ==
  (IsCheck /\ Target.errno = "ENOENT" /\ last.opts.Create.Kind = NoAction
     /\ (last.op = "Directory" => ~last.opts.WillCreate))
  => /\ last.opts.Exists => last.out.err \in NotFound
     /\ ~last.opts.Exists => last.out.err = "nil"
     /\ fs = last.before

\* a missing directory checked with a predicate configured and Exists unset passes
C2_Witness ==
  /\ last.op = "Directory" /\ Target.errno = "ENOENT"
  /\ last.opts.Create.Kind = NoAction /\ ~last.opts.WillCreate /\ ~last.opts.Exists
  /\ last.opts.RequirePrefix # <<>> /\ last.opts.RequireWrite
  /\ last.out.err = "nil"

ParentUsable(f, path) ==
  /\ f[Dir(path)].kind = "dir"
  /\ BitAnd(f[Dir(path)].perm, Oct(2, 0, 0)) # 0

ParentErrors ==
  {"failed to access parent directory", "parent path is not a directory",
   "parent directory not writable"}

\* C4: File fails with the wrong-type error on anything found that is no regular
\* file; Directory, past its parent check and existence expectation, fails with the
\* wrong-type error on anything found that is no directory; a link to a regular
\* file passes File's type check; all that whatever predicates are configured.
C4_WrongType ==
  /\ (last.op = "File" /\ Target.errno = "ok" /\ Target.info.kind # "file")
       => last.out.err = "not a regular file"
  /\ (last.op = "Directory" /\ Target.errno = "ok" /\ Target.info.kind # "dir"
        /\ (last.opts.Exists \/ last.opts.WillCreate)
        /\ (last.opts.WillCreate => ParentUsable(last.before, last.path)))
       => last.out.err = "not a directory"
  /\ (last.op = "File" /\ last.before[last.path].kind = "symlink"
        /\ Target.errno = "ok" /\ Target.info.kind = "file")
       => last.out.err # "not a regular file"

\* File on a directory with an extension required that the path does not have
C4_Witness ==
  /\ last.op = "File" /\ Target.errno = "ok" /\ Target.info.kind = "dir"
  /\ last.opts.RequireExt # <<>> /\ Ext(last.path) # last.opts.RequireExt
  /\ last.out.err = "not a regular file"

\* C5: a Directory call with WillCreate set and Create.Kind left at NoAction creates
\* nothing, and no File or Directory call with Kind = NoAction runs a Create action.
C5_WillCreateCreatesNothing ==
  (IsCheck /\ last.opts.Create.Kind = NoAction)
  => /\ fs = last.before
     /\ last.out.runs = 0

Defaulted(create, path) ==
  IF create.Path = EmptyPath THEN [create EXCEPT !.Path = path] ELSE create

\* the last call ran its Create action once and returned what the action returned
RanOnce ==
  LET r == IF last.op = "File"
           THEN FileCreateRun(last.before, Defaulted(last.opts.Create, last.path))
           ELSE DirectoryCreateRun(last.before, Defaulted(last.opts.Create, last.path))
  IN /\ last.out.runs = 1
     /\ last.out.err = r.err /\ last.out.cause = r.cause
     /\ fs = r.fs

\* C7 as claimed: on a missing target with Kind = IfNotExists, File and Directory
\* run the creation action once and return its result.
C7_CreateIfMissing ==
  (IsCheck /\ Target.errno = "ENOENT" /\ last.opts.Create.Kind = IfNotExists)
  => RanOnce

\* C7 as amended: the same, for Directory with WillCreate set only when the parent
\* check passes.
C7_CreateIfMissingPastParent ==
  (IsCheck /\ Target.errno = "ENOENT" /\ last.opts.Create.Kind = IfNotExists
     /\ (last.op = "Directory" /\ last.opts.WillCreate
           => ParentUsable(last.before, last.path)))
  => RanOnce

\* File creates a file whose size is not the IsSize it was asked to check, and passes
C7_Witness ==
  /\ last.op = "File" /\ Target.errno = "ENOENT"
  /\ last.opts.Create.Kind = IfNotExists /\ last.opts.IsSize # Bytes(0)
  /\ last.out.err = "nil" /\ fs[last.path].kind = "file"
  /\ fs[last.path].size # last.opts.IsSize

\* C8: on an existing target of the right type with Kind = IfExists, File and
\* Directory run the creation action (remove, then create) and return its result.
C8_ReplaceIfExisting ==
  (IsCheck /\ Target.errno = "ok" /\ last.opts.Create.Kind = IfExists
     /\ Target.info.kind = (IF last.op = "File" THEN "file" ELSE "dir"))
  => RanOnce

\* C9: Run with Kind = IfNotExists on a path that is present fails with an
\* AlreadyExists error and leaves the filesystem as it was.
C9_RunOnPresent ==
  (last.op \in {"FileCreateRun", "DirectoryCreateRun"}
     /\ last.opts.Create.Kind = IfNotExists /\ Target.errno = "ok")
  => /\ last.out.err # "nil" /\ last.out.cause = "EEXIST"
     /\ fs = last.before

\* C10: in a File or Directory call the create-if-missing step runs only when the
\* location it creates at is absent.
C10_CreatesOnlyWhenAbsent ==
  (IsCheck /\ last.out.ran) => ~last.out.present

\* C11: a file creation with Size above one terabyte fails with the size error
\* before anything is written: no os call is made and the filesystem is as before.
C11_SizeCheckedBeforeWrite ==
  (last.op \in {"File", "FileCreateRun"} /\ last.out.ran
     /\ SizeLess(TB, last.out.create.Size))
  => /\ last.out.err = "file size too big"
     /\ last.out.trace = <<>>
     /\ fs = last.before

IsRun == last.op \in {"FileCreateRun", "DirectoryCreateRun"}

\* C12: after Run has made its create-if-missing step, whether it succeeded or
\* failed, the Create value's Kind is NoAction, and Run again on the same value
\* performs no filesystem operation.
C12_KindReverts ==
  /\ (IsRun /\ last.out.ran)
       => last.out.create.Kind = NoAction /\ last.held.Create.Kind = NoAction
  /\ (IsRun /\ last.again = "same" /\ last.first.ran)
       => /\ last.opts.Create.Kind = NoAction
          /\ last.out.trace = <<>> /\ ~last.out.ran
          /\ fs = last.before

\* Run again on a file.Create value whose first Run changed the filesystem
C12_Witness ==
  /\ last.op = "FileCreateRun" /\ last.again = "same"
  /\ last.first.ran /\ last.first.changed
  /\ last.first.opts.Create.Kind = IfNotExists
  /\ last.out.trace = <<>>

\* C13: after File or Directory returns, the caller's Options value is the one it
\* passed, Create.Kind and Create.Path included, so a second call with it is a call
\* with the same policy.
C13_CallerOptionsUnchanged ==
  /\ IsCheck => last.held = last.opts
  /\ (IsCheck /\ last.again = "same") => last.opts = last.first.opts

\* Directory called twice with WillCreate set and Create at its zero value, the
\* first call having forced the Kind, defaulted the Path and created the directory
C13_Witness ==
  /\ last.op = "Directory" /\ last.again = "same"
  /\ last.first.opts.WillCreate /\ last.first.opts.Create = DirectoryCreateDefault
  /\ last.first.ran /\ last.first.changed
  /\ last.opts = last.first.opts

\* C15 as claimed: File or Directory called twice in succession with the same
\* configuration returns the same result both times.
C15_Idempotent ==
  (IsCheck /\ last.again = "same")
  => last.out.err = last.first.err /\ last.out.cause = last.first.cause

\* C15 as amended: the same, when the first call left the filesystem as it was.
C15_IdempotentWhenUnchanged ==
  (IsCheck /\ last.again = "same" /\ ~last.first.changed)
  => last.out.err = last.first.err /\ last.out.cause = last.first.cause

\* File called twice with a creation policy whose step fails both times
C15_Witness ==
  /\ last.op = "File" /\ last.again = "same"
  /\ last.first.ran /\ ~last.first.changed
  /\ last.first.err = "could not create file" /\ last.out.err = last.first.err

\* C16: when File with a create-if-missing policy on a missing path succeeds, File
\* on the same path with Exists alone succeeds right after.
C16_ExistenceRoundTrip ==
  (last.op = "File" /\ last.again = "exists" /\ last.first.missing
     /\ last.first.opts.Create.Kind = IfNotExists /\ last.first.err = "nil")
  => last.out.err = "nil"

\* C14: a File or Directory call on a path it finds returns what its predicates
\* give on the one snapshot its os.Stat took, whatever another process does to the
\* path's mode while the call runs.
C14_SingleSnapshot ==
  /\ (last.op = "File" /\ Target.errno = "ok")
       => last.out.err = File(last.before, last.path, last.opts).err
  /\ (last.op = "Directory" /\ Target.errno = "ok")
       => last.out.err = Directory(last.before, last.path, last.opts).err

\* the size, in bytes, of the regular file the last call was made on
N == Target.info.size.b

SizeCase == last.op = "File" /\ Target.errno = "ok" /\ Target.info.kind = "file"

Passes == last.out.err = "nil"

\* C17 as claimed: a regular file of N bytes, N >= 0, passes IsSize = N, fails
\* IsLessThan = N and IsGreaterThan = N, passes IsLessThan = N+1 and
\* IsGreaterThan = N-1.
C17_SizeBoundary ==
  SizeCase =>
    /\ last.opts = [FileDefault EXCEPT !.IsSize = Bytes(N)] => Passes
    /\ last.opts = [FileDefault EXCEPT !.IsLessThan = Bytes(N)] => ~Passes
    /\ last.opts = [FileDefault EXCEPT !.IsGreaterThan = Bytes(N)] => ~Passes
    /\ last.opts = [FileDefault EXCEPT !.IsLessThan = Bytes(N + 1)] => Passes
    /\ last.opts = [FileDefault EXCEPT !.IsGreaterThan = Bytes(N - 1)] => Passes

\* C17 as amended: the two failures hold for N >= 1; at N = 0 the thresholds are
\* zero, which is not configured, and the call passes.
C17_SizeBoundaryAboveZero ==
  SizeCase =>
    /\ last.opts = [FileDefault EXCEPT !.IsSize = Bytes(N)] => Passes
    /\ last.opts = [FileDefault EXCEPT !.IsLessThan = Bytes(N)] => (Passes <=> N = 0)
    /\ last.opts = [FileDefault EXCEPT !.IsGreaterThan = Bytes(N)]
         => (Passes <=> N = 0)
    /\ last.opts = [FileDefault EXCEPT !.IsLessThan = Bytes(N + 1)] => Passes
    /\ last.opts = [FileDefault EXCEPT !.IsGreaterThan = Bytes(N - 1)] => Passes

\* a file of the largest size fails IsGreaterThan at exactly its size
C17_Witness ==
  /\ SizeCase /\ N = MaxBytes
  /\ last.opts = [FileDefault EXCEPT !.IsGreaterThan = Bytes(N)]
  /\ last.out.err = "file size is not greater than"

\* the permission bits set in a mode
Bits(m) == {i \in 0..8 : (m \div (2 ^ i)) % 2 = 1}

\* C19: IsMorePermissiveThan holds exactly when every bit of the reference is set
\* in the mode, IsLessPermissiveThan exactly when the mode sets no bit outside the
\* reference; each decides alone, and both hold when mode and reference are equal.
C19_PermissionBounds ==
  /\ last.op = "IsMorePermissiveThan"
       => /\ last.out.err = "nil"
          /\ last.out.ok <=> Bits(last.opts.ref) \subseteq Bits(Target.info.perm)
  /\ last.op = "IsLessPermissiveThan"
       => /\ last.out.err = "nil"
          /\ last.out.ok <=> Bits(Target.info.perm) \subseteq Bits(last.opts.ref)
  /\ (last.op \in {"IsMorePermissiveThan", "IsLessPermissiveThan"}
        /\ last.opts.ref = Target.info.perm) => last.out.ok

\* mode 0600 against the reference 0644 is not more permissive
C19_Witness ==
  /\ last.op = "IsMorePermissiveThan"
  /\ Target.info.perm = Oct(6, 0, 0) /\ last.opts.ref = Oct(6, 4, 4)
  /\ ~last.out.ok

\* C20: the Windows IsMorePermissiveThan and IsLessPermissiveThan return what the
\* default build's return, for every mode and reference.
C20_WindowsSameAsDefault ==
  /\ last.op = "IsMorePermissiveThanWindows"
       => last.out = IsMorePermissiveThan(last.before, last.path, last.opts.ref)
  /\ last.op = "IsLessPermissiveThanWindows"
       => last.out = IsLessPermissiveThan(last.before, last.path, last.opts.ref)

\* the absolute base is a leading part, element by element, of the absolute path
BelowOrEqual(path, base) ==
  /\ Len(Abs(base)) <= Len(Abs(path))
  /\ SubSeq(Abs(path), 1, Len(Abs(base))) = Abs(base)

\* C18: for non-empty P and B, IsPathInBase is false exactly when the relative
\* path from the absolute B to the absolute P has ".." as its first element, that
\* is when B is not a leading part of P, and true otherwise, without error; an
\* empty P or B gives an error and false.
C18_IsPathInBase ==
  last.op = "IsPathInBase" =>
    LET P == last.path
        B == last.opts.ref
    IN IF P = EmptyPath \/ B = EmptyPath
       THEN last.out.err # "nil" /\ ~last.out.ok
       ELSE /\ last.out.err = "nil"
            /\ ~last.out.ok <=> Rel(Abs(B), Abs(P))[1] = DotDot
            /\ last.out.ok <=> BelowOrEqual(P, B)

\* the name "..x" under the base is inside it
C18_Witness ==
  /\ last.op = "IsPathInBase"
  /\ last.path = <<Sep, nD, nDotsX>> /\ last.opts.ref = pD
  /\ last.out = [ok |-> TRUE, err |-> "nil"]

IdentityFailure == "failed to get owner/group"

\* the options of the last call with no identity required
NoIdentity == [last.opts EXCEPT !.RequireOwner = <<>>, !.RequireGroup = <<>>]

\* the last call, made with no identity required, passes every step
ReachesIdentity ==
  /\ Target.errno = "ok"
  /\ last.op = "File" => FileWindows(last.before, last.path, NoIdentity).err = "nil"
  /\ last.op = "Directory"
       => /\ last.opts.Exists \/ last.opts.WillCreate
          /\ DirectoryWindows(last.before, last.path, NoIdentity).err = "nil"

\* C21: in the Windows build, where the owner and group cannot be looked up, a
\* File or Directory call that requires an owner or a group and passes every
\* earlier step fails with the lookup's failure; a call that requires neither
\* never fails with it.
C21_IdentityUnsupported ==
  IsCheck =>
    /\ (last.opts.RequireOwner # <<>> \/ last.opts.RequireGroup # <<>>)
         /\ ReachesIdentity => last.out.err = IdentityFailure
    /\ (last.opts.RequireOwner = <<>> /\ last.opts.RequireGroup = <<>>)
         => last.out.err # IdentityFailure

\* the owner that /d/a.t has is required of it, and the call fails
C21_Witness ==
  /\ last.op = "File" /\ last.path = pA
  /\ last.opts.RequireOwner = Sprint(Owner.uid) /\ ReachesIdentity
  /\ last.out.err = IdentityFailure

\* the steps in the order claimed
ClaimedOrder ==
  <<"temporal", "naming", "containment", "size", "mode", "bounds", "flags",
    "identity">>

Has(o, field) == field \in DOMAIN o

\* the predicates of a step, as configured in o, do not all hold of the entry e
StepViolated(step, e, path, o) ==
  CASE step = "temporal" ->
         \/ o.CreatedBefore # 0 /\ e.ctime > o.CreatedBefore
         \/ o.ModifiedBefore # 0 /\ e.mtime > o.ModifiedBefore
    [] step = "naming" ->
         \/ o.RequirePrefix # <<>> /\ ~HasPrefix(path[Len(path)], o.RequirePrefix)
         \/ Has(o, "IsSize") /\ o.RequireExt # <<>> /\ Ext(path) # o.RequireExt
         \/ Has(o, "IsBaseNameLen") /\ o.IsBaseNameLen # 0
              /\ Len(path[Len(path)]) # o.IsBaseNameLen
    [] step = "containment" ->
         o.RequireBaseDir # EmptyPath /\ ~InsideBase(path, o.RequireBaseDir)
    [] step = "size" ->
         /\ Has(o, "IsSize")
         /\ \/ o.IsSize # Bytes(0) /\ e.size # o.IsSize
            \/ o.IsLessThan # Bytes(0) /\ ~SizeLess(e.size, o.IsLessThan)
            \/ o.IsGreaterThan # Bytes(0) /\ ~SizeLess(o.IsGreaterThan, e.size)
    [] step = "mode" ->
         Has(o, "IsFileMode") /\ o.IsFileMode # 0 /\ e.perm # o.IsFileMode
    [] step = "bounds" ->
         \/ o.MorePermissiveThan # 0
              /\ BitAnd(e.perm, o.MorePermissiveThan) # o.MorePermissiveThan
         \/ o.LessPermissiveThan # 0 /\ BitAnd(e.perm, o.LessPermissiveThan) # e.perm
    [] step = "flags" ->
         \/ o.ReadOnly /\ BitAnd(e.perm, Oct(2, 2, 2)) # 0
         \/ Has(o, "WriteOnly") /\ o.WriteOnly /\ BitAnd(e.perm, Oct(4, 4, 4)) # 0
         \/ o.RequireWrite /\ BitAnd(e.perm, Oct(2, 0, 0)) = 0
    [] OTHER ->
         \/ o.RequireOwner # <<>> /\ Sprint(e.uid) # o.RequireOwner
         \/ o.RequireGroup # <<>> /\ Sprint(e.gid) # o.RequireGroup

\* the step a failure belongs to
StepOf(err) ==
  CASE err \in {"file created after specified time", "file modified after specified time",
                "directory created after specified time",
                "directory modified after specified time"} -> "temporal"
    [] err \in {"incorrect file extension", "incorrect file prefix",
                "incorrect base name length", "incorrect directory prefix"} -> "naming"
    [] err \in {"ErrCheckBadBaseDir", "ErrCheckDirBadBaseDir"} -> "containment"
    [] err \in {"incorrect file size", "file size is not less than",
                "file size is not greater than"} -> "size"
    [] err = "incorrect file mode" -> "mode"
    [] err \in {"file mode is less permissive than required",
                "file mode is more permissive than allowed",
                "directory mode is less permissive than required",
                "directory mode is more permissive than allowed"} -> "bounds"
    [] err \in {"ErrCheckOpenPermissions", "ErrCheckNoWritePermissions",
                "file has read permissions when write-only required",
                "ErrCheckDirOpenPermissions", "ErrCheckDirNoWritePermissions"} -> "flags"
    [] err \in {"ErrCheckBadOwner", "ErrCheckBadGroup", "ErrCheckDirBadOwner",
                "ErrCheckDirBadGroup"} -> "identity"
    [] OTHER -> "other"

\* the last call was made on a target of its type, with nothing to create, and so
\* goes through the predicates
ReachesPredicates ==
  /\ IsCheck /\ Target.errno = "ok" /\ last.opts.Create.Kind = NoAction
  /\ last.op = "File" => Target.info.kind = "file"
  /\ last.op = "Directory"
       => Target.info.kind = "dir" /\ last.opts.Exists /\ ~last.opts.WillCreate

\* C22: when predicates of several steps are violated, the failure returned is that
\* of the earliest violated step in the order temporal, naming, containment, size,
\* exact mode, permissiveness bounds, coarse flags, identity.
C22_FailFastOrder ==
  ReachesPredicates =>
    \A i \in 1..Len(ClaimedOrder) :
      (/\ StepViolated(ClaimedOrder[i], Target.info, last.path, last.opts)
       /\ \A j \in 1..(i - 1) :
            ~StepViolated(ClaimedOrder[j], Target.info, last.path, last.opts))
      => StepOf(last.out.err) = ClaimedOrder[i]

\* the permission bits of the target of the last call
M == Target.info.perm

\* the permissiveness bounds configured in the last call hold of M
BoundsHold ==
  /\ last.opts.MorePermissiveThan # 0 => Bits(last.opts.MorePermissiveThan) \subseteq Bits(M)
  /\ last.opts.LessPermissiveThan # 0 => Bits(M) \subseteq Bits(last.opts.LessPermissiveThan)

\* a flag that must fail fails the call, with its own failure when the bounds hold;
\* a flag that must pass never gives its failure, and the call passes when the
\* bounds hold
FlagDecides(set, mustFail, failures) ==
  set => /\ mustFail => last.out.err # "nil" /\ (BoundsHold => last.out.err \in failures)
         /\ ~mustFail => last.out.err \notin failures /\ (BoundsHold => last.out.err = "nil")

\* C23: on an existing target with permission bits M, ReadOnly fails exactly when a
\* write bit (0222) is set, WriteOnly (files) exactly when a read bit (0444) is set,
\* RequireWrite exactly when the owner write bit (0200) is clear, each whatever
\* permissiveness bounds are configured with it.
C23_CoarseFlags ==
  IsCheck /\ Target.errno = "ok" =>
    /\ FlagDecides(last.opts.ReadOnly, Bits(M) \cap {1, 4, 7} # {},
                   {"ErrCheckOpenPermissions", "ErrCheckDirOpenPermissions"})
    /\ FlagDecides(last.op = "File" /\ last.opts.WriteOnly,
                   Bits(M) \cap {2, 5, 8} # {},
                   {"file has read permissions when write-only required"})
    /\ FlagDecides(last.opts.RequireWrite, 7 \notin Bits(M),
                   {"ErrCheckNoWritePermissions", "ErrCheckDirNoWritePermissions"})

\* a directory of mode 0444 fails RequireWrite with the missing-write failure
C23_Witness ==
  /\ last.op = "Directory" /\ M = Oct(4, 4, 4)
  /\ last.opts.RequireWrite /\ last.opts.MorePermissiveThan = 0
  /\ last.out.err = "ErrCheckDirNoWritePermissions"

\* C24: whenever Directory returns success for Options with Exists set, the
\* checked path is a directory when the call returns, also when the call was to
\* create it.
C24_ExistsMeansDirectory ==
  (last.op = "Directory" /\ last.opts.Exists /\ last.out.err = "nil")
  => /\ Stat(fs, last.path).errno = "ok"
     /\ Stat(fs, last.path).info.kind = "dir"

\* C25: NewCreate(c).Run() does what c.Run() does: it returns what Run on c
\* returns and leaves the filesystem as Run on c leaves it, the file at c.Path
\* created.
C25_NewCreateRuns ==
  last.op = "NewCreateRun" =>
    /\ last.out.err = FileCreateRun(last.before, last.opts.Create).err
    /\ fs = FileCreateRun(last.before, last.opts.Create).fs

\* C26: a File call on a path returns the same result and leaves the same entry at
\* its path whether it runs alone or beside a call on a different path, in every
\* interleaving.
C26_OtherPathIndependent ==
  last.again \in {"first", "between"} =>
    /\ last.out.err = last.first.err
    /\ fs[last.path] = last.first.entry

\* where the creation of the last call is to happen
CreatePath == Defaulted(last.opts.Create, last.path).Path

\* p is q or lies below q
AtOrBelow(p, q) == Len(q) <= Len(p) /\ SubSeq(p, 1, Len(q)) = q

\* the entry at p is as it was before the last call, its modification time aside
OnlyTouched(p) == [fs[p] EXCEPT !.mtime = last.before[p].mtime] = last.before[p]

\* all that the last call changed is at the location at or below it or, for
\* Directory, a missing directory above it; of the directories above it that were
\* there, nothing but the modification time changed
ConfinedTo(at) ==
  \A p \in Universe :
    fs[p] # last.before[p] =>
      \/ AtOrBelow(p, at)
      \/ /\ AtOrBelow(at, p)
         /\ \/ last.op = "Directory" /\ last.before[p].kind = "absent"
            \/ OnlyTouched(p)

\* a File call changes nothing unless its path is missing and Kind = IfNotExists;
\* a call with Kind = NoAction and WillCreate unset changes nothing
ChangesOnlyByPolicy ==
  /\ (last.op = "File" /\ fs # last.before)
       => Target.errno = "ENOENT" /\ last.opts.Create.Kind = IfNotExists
  /\ (last.opts.Create.Kind = NoAction
        /\ (last.op = "Directory" => ~last.opts.WillCreate))
       => fs = last.before

\* C27 as claimed: what a File or Directory call changes is confined to Create.Path
\* (the checked path when Create.Path is empty) and, for Directory, its missing
\* ancestors; a File call changes nothing unless its path is missing and Kind =
\* IfNotExists; a call with Kind = NoAction and WillCreate unset changes nothing.
C27_Frame ==
  IsCheck => ConfinedTo(CreatePath) /\ ChangesOnlyByPolicy

\* where the creation of the last call happens: the target of the link, when
\* Create.Path is a symbolic link
CreatedAt ==
  IF last.before[CreatePath].kind = "symlink" THEN last.before[CreatePath].target
  ELSE CreatePath

\* C27 as amended: the changes are confined to Create.Path or, when Create.Path is
\* a symbolic link, to the location the link points to.
C27_FrameThroughLinks ==
  IsCheck => ConfinedTo(CreatedAt) /\ ChangesOnlyByPolicy

\* File on the dangling link /d/s, Kind = IfNotExists: the file is made at /d/a.t
C27_Witness ==
  /\ last.op = "File" /\ last.path = pS /\ last.opts.Create.Path = EmptyPath
  /\ last.before[pS].kind = "symlink" /\ last.before[pA].kind = "absent"
  /\ fs[pA].kind = "file" /\ fs[pS] = last.before[pS]

\* the removal that Run starts with when Kind = IfExists goes through
Removed ==
  IF last.op = "FileCreateRun"
  THEN Remove(last.before, last.opts.Create.Path).errno = "ok"
  ELSE RemoveAll(last.before, last.opts.Create.Path).errno = "ok"

\* Run leaves Kind at NoAction from IfNotExists and from IfExists with the removal
\* done, at IfExists when the removal failed; on NoAction it returns the
\* unsupported-kind error, changes nothing and makes no os call
RunMovesKind ==
  IsRun =>
    /\ last.opts.Create.Kind = IfNotExists => last.out.create.Kind = NoAction
    /\ last.opts.Create.Kind = IfExists
         => last.out.create.Kind = (IF Removed THEN NoAction ELSE IfExists)
    /\ last.opts.Create.Kind = NoAction
         => /\ last.out.err = "create kind not supported"
            /\ last.out.create = last.opts.Create
            /\ fs = last.before /\ last.out.trace = <<>>

C29_ReplaceRemovesFirst ==
  (IsRun /\ last.opts.Create.Kind = IfExists) =>
    /\ ~Removed
         => /\ last.out.err \in {"could not remove file", "could not remove directory"}
            /\ last.out.trace \in {<<"Remove">>, <<"RemoveAll">>}
            /\ fs = last.before
    /\ (Removed /\ last.out.err # "nil")
         => Stat(fs, last.opts.Create.Path).errno = "ENOENT"

\* C30: when a File or Directory call looks its target up and the lookup fails
\* for another reason than non-existence, the call returns the stat failure with
\* that reason, runs no creation and changes nothing, whatever Exists and the
\* creation policy are.
C30_LookupFailure ==
  (/\ IsCheck /\ Target.errno \notin {"ok", "ENOENT"}
   /\ (last.op = "Directory" /\ last.opts.WillCreate)
        => ParentCheck(last.before, last.path) = "nil")
  => /\ last.out.err \in {"failed to stat file", "failed to stat directory"}
     /\ last.out.cause = Target.errno
     /\ last.out.runs = 0
     /\ fs = last.before

\* File on a path under a regular file, Exists set and Kind = IfNotExists
C30_Witness ==
  /\ last.op = "File" /\ last.path = pAZ /\ Target.errno = "ENOTDIR"
  /\ last.opts.Exists /\ last.opts.Create.Kind = IfNotExists
  /\ last.out.err = "failed to stat file" /\ last.out.cause = "ENOTDIR"

====
